---- MODULE Spec2Model ----
(***************************************************************************)
(* Model of the 3D robot-vehicle scene: the scene host (initRobotScene),   *)
(* the two rendering styles (LowPolyStyle, WireframeStyle), the geometry   *)
(* builder (buildVehicleScene) and the motion controller                   *)
(* (AnimationController).                                                  *)
(***************************************************************************)
EXTENDS Integers, Sequences, FiniteSets, TLC

VARIABLES
    style,           \* config.style: which RobotStyle the host was given
    period,          \* host display refresh period, in clock ticks
    now,             \* clock.getElapsedTime(), in clock ticks
    rafPending,      \* the frame request named by animationId is still queued
    resizeListening, \* window 'resize' listener registered
    themeObserving,  \* themeObserver connected
    motionListening, \* prefers-reduced-motion 'change' listener registered
    parentSize,      \* host: canvas.parentElement client size
    canvasSize,      \* canvas.width/height = renderer size
    cameraPos,       \* camera.position preset chosen by updateCamera
    themeAttr,       \* host: document data-theme
    colors,          \* closure variable `colors` (theme it was read from)
    prefersReduced,  \* host: matchMedia(...).matches
    reducedMotion,   \* closure variable reducedMotion
    meshMaterial,    \* child.material of every mesh
    styleState,      \* private fields of the style instance
    lineAttached,    \* meshes that still carry their edge-line child
    sceneChildren,   \* direct children of the THREE.Scene
    fog,             \* scene.fog (colour term) or NoFog
    paint,           \* colour of every material / light the style owns
    disposals,       \* per resource: who called dispose() on it, in order
    cleanupCalls,    \* how many times the teardown function was called
    lastCallback,    \* which callback of the subsystem ran in the last step
    frameLog,        \* what the last animate() did: update called / rendered
    animator,        \* AnimationController private state: bonkWheelExtra, prevTangent
    refs,            \* VehicleRefs transforms: vehicle, carBody, wheels
    lastUpdate       \* the locals of the last call of update()

sceneVars == <<style, period, now, rafPending, resizeListening, themeObserving,
               motionListening, parentSize, canvasSize, cameraPos, themeAttr,
               colors, prefersReduced, reducedMotion, meshMaterial, styleState,
               lineAttached, sceneChildren, fog, paint, disposals, cleanupCalls,
               lastCallback, frameLog>>

vars == <<sceneVars, animator, refs, lastUpdate>>

-----------------------------------------------------------------------------
(* Bounds of the model *)

\* teardown calls the host may make
MaxCleanupCalls == 2
\* clock horizon of the host specification, in seconds of elapsed time
MaxHostSeconds == 2
\* clock horizon of the frame-by-frame specification, in seconds
MaxCycleSeconds == 6

\* seconds of clock time covered by the specification with skipped frames
MaxGapSeconds == 5

\* frames run by the specification with a held raw tangent
MaxTurnFrames == 200

-----------------------------------------------------------------------------
(* Geometry builder: buildVehicleScene / makeMesh *)

VehicleMeshes == <<"car-body", "car-cabin", "wheel-fr", "wheel-fl", "wheel-rr", "wheel-rl">>
CubeMesh == "obstacle-cube"

\* order in which sceneRoot.traverse visits the meshes
TraverseOrder == VehicleMeshes \o <<CubeMesh>>

SeqRange(s) == {s[i] : i \in 1..Len(s)}

Meshes == SeqRange(TraverseOrder)

IsWheel(m) == m \in {"wheel-fr", "wheel-fl", "wheel-rr", "wheel-rl"}

\* resources made by buildVehicleScene: one geometry and one invisible
\* placeholder material per mesh (makeMesh), and the cylinder the four wheel
\* geometries are cloned from
BuilderResources ==
    {<<"geometry", m>> : m \in Meshes} \cup {<<"placeholder", m>> : m \in Meshes}
        \cup {<<"geometry", "wheel-template">>}

-----------------------------------------------------------------------------
(* Colours: a colour is kept as the term that produced it,                  *)
(* <<theme colour it was copied from, theme, tint applied to it>>.          *)

Themes == {"light", "dark"}

Colour(base, theme, tint) == <<base, theme, tint>>

\* CUBE_COLOR: fixed purple, the same in every theme
CUBE_COLOR == Colour("0x7c3aed", "any", "none")

WHITE == Colour("0xffffff", "any", "none")

NoFog == <<"null">>

-----------------------------------------------------------------------------
(* LowPolyStyle *)

LowPolyResources ==
    {<<"phong", m>> : m \in Meshes} \cup {<<"geometry", "ground">>, <<"phong", "ground">>}

LowPolyHelpers == {"ambientLight", "dirLight", "fillLight", "ground"}

\* the per-part tint LowPolyStyle.apply gives a vehicle material
LowPolyTint(m) ==
    IF IsWheel(m) THEN "lerp(0x333333,0.5)"
    ELSE IF m = "car-cabin" THEN "lerp(0xffffff,0.15)"
    ELSE "none"

LowPolyApply(c) ==
    [meshMaterial  |-> [m \in Meshes |-> <<"phong", m>>],
     styleState    |-> [vehicleMaterials |-> VehicleMeshes,
                        cubeMaterial     |-> TRUE,
                        groundMaterial   |-> TRUE,
                        ground           |-> TRUE,
                        ambientLight     |-> TRUE,
                        dirLight         |-> TRUE,
                        fillLight        |-> TRUE,
                        edgeLines        |-> <<>>,
                        cubeEdgeLines    |-> <<>>,
                        grid             |-> FALSE,
                        scene            |-> TRUE],
     lineAttached  |-> {},
     sceneChildren |-> LowPolyHelpers,
     fog           |-> Colour("background", c, "none"),
     paint         |-> [r \in {<<"phong", m>> : m \in Meshes}
                              \cup {<<"phong", "ground">>, <<"light", "ambientLight">>,
                                    <<"light", "dirLight">>, <<"light", "fillLight">>} |->
                        CASE r = <<"phong", CubeMesh>>        -> Colour("accentSecondary", c, "none")
                          [] r = <<"phong", "ground">>        -> Colour("accent", c, "x0.15")
                          [] r = <<"light", "ambientLight">>  -> Colour("accent", c, "lerp(0xffffff,0.6)")
                          [] r = <<"light", "dirLight">>      -> WHITE
                          [] r = <<"light", "fillLight">>     -> Colour("accentSecondary", c, "lerp(0xffffff,0.5)")
                          [] OTHER                            -> Colour("accent", c, LowPolyTint(r[2]))]]

LowPolyUpdateColors(st, pt, fg, c) ==
    [paint |-> [r \in DOMAIN pt |->
                  IF r[1] = "phong" /\ r[2] \in SeqRange(st.vehicleMaterials)
                      THEN Colour("accent", c, "none")
                  ELSE IF r = <<"phong", CubeMesh>> /\ st.cubeMaterial
                      THEN Colour("accentSecondary", c, "none")
                  ELSE IF r = <<"phong", "ground">> /\ st.groundMaterial
                      THEN Colour("accent", c, "x0.15")
                  ELSE IF r = <<"light", "ambientLight">> /\ st.ambientLight
                      THEN Colour("accent", c, "lerp(0xffffff,0.6)")
                  ELSE IF r = <<"light", "fillLight">> /\ st.fillLight
                      THEN Colour("accentSecondary", c, "lerp(0xffffff,0.5)")
                  ELSE pt[r]],
     fog   |-> IF st.scene /\ fg # NoFog THEN Colour("background", c, "none") ELSE fg]

\* the resources LowPolyStyle.dispose() calls dispose() on, in order
LowPolyDisposeList(st) ==
    [i \in 1..Len(st.vehicleMaterials) |-> <<"phong", st.vehicleMaterials[i]>>]
    \o (IF st.cubeMaterial THEN <<<<"phong", CubeMesh>>>> ELSE <<>>)
    \o (IF st.ground
           THEN <<<<"geometry", "ground">>>>
                \o (IF st.groundMaterial THEN <<<<"phong", "ground">>>> ELSE <<>>)
           ELSE <<>>)

LowPolyDisposeState(st) ==
    [st EXCEPT !.vehicleMaterials = <<>>,
               !.cubeMaterial = FALSE,
               !.groundMaterial = IF st.ground THEN FALSE ELSE @,
               !.ground = FALSE,
               !.ambientLight = FALSE,
               !.dirLight = FALSE,
               !.fillLight = FALSE,
               !.scene = FALSE]

\* scene children LowPolyStyle.dispose() removes (this.scene?.remove(...))
LowPolyRemoved(st) ==
    IF st.scene
        THEN {h \in LowPolyHelpers :
                 \/ h = "ground" /\ st.ground
                 \/ h = "ambientLight" /\ st.ambientLight
                 \/ h = "dirLight" /\ st.dirLight
                 \/ h = "fillLight" /\ st.fillLight}
        ELSE {}

-----------------------------------------------------------------------------
(* WireframeStyle *)

WireframeResources ==
    {<<"hidden", m>> : m \in Meshes} \cup {<<"edges", m>> : m \in Meshes}
    \cup {<<"line", m>> : m \in Meshes}
    \cup {<<"geometry", "grid">>, <<"gridMaterial", "center">>, <<"gridMaterial", "lines">>}

WireframeHelpers == {"grid"}

WireframeApply(c) ==
    [meshMaterial  |-> [m \in Meshes |-> <<"hidden", m>>],
     styleState    |-> [vehicleMaterials |-> <<>>,
                        cubeMaterial     |-> FALSE,
                        groundMaterial   |-> FALSE,
                        ground           |-> FALSE,
                        ambientLight     |-> FALSE,
                        dirLight         |-> FALSE,
                        fillLight        |-> FALSE,
                        edgeLines        |-> VehicleMeshes,
                        cubeEdgeLines    |-> <<CubeMesh>>,
                        grid             |-> TRUE,
                        scene            |-> TRUE],
     lineAttached  |-> Meshes,
     sceneChildren |-> WireframeHelpers,
     fog           |-> Colour("background", c, "none"),
     paint         |-> [r \in {<<"line", m>> : m \in Meshes}
                              \cup {<<"gridMaterial", "center">>, <<"gridMaterial", "lines">>} |->
                        CASE r = <<"line", CubeMesh>>            -> CUBE_COLOR
                          [] r = <<"gridMaterial", "center">>    -> Colour("accent", c, "x0.4")
                          [] r = <<"gridMaterial", "lines">>     -> Colour("accent", c, "x0.15")
                          [] OTHER                               -> Colour("accent", c, "none")]]

\* an updateColors that recolours every edge line, the obstacle's included
MutWireframeUpdateAllLines(st, pt, fg, c) ==
    [paint |-> [r \in DOMAIN pt |->
                  IF r[1] = "line" /\ r[2] \in SeqRange(st.edgeLines \o st.cubeEdgeLines)
                      THEN Colour("accent", c, "none")
                  ELSE IF r = <<"gridMaterial", "center">> /\ st.grid
                      THEN Colour("accent", c, "x0.4")
                  ELSE IF r = <<"gridMaterial", "lines">> /\ st.grid
                      THEN Colour("accent", c, "x0.15")
                  ELSE pt[r]],
     fog   |-> IF st.scene /\ fg # NoFog THEN Colour("background", c, "none") ELSE fg]

WireframeUpdateColors(st, pt, fg, c) ==
    [paint |-> [r \in DOMAIN pt |->
                  IF r[1] = "line" /\ r[2] \in SeqRange(st.edgeLines)
                      THEN Colour("accent", c, "none")
                  ELSE IF r = <<"gridMaterial", "center">> /\ st.grid
                      THEN Colour("accent", c, "x0.4")
                  ELSE IF r = <<"gridMaterial", "lines">> /\ st.grid
                      THEN Colour("accent", c, "x0.15")
                  ELSE pt[r]],
     fog   |-> IF st.scene /\ fg # NoFog THEN Colour("background", c, "none") ELSE fg]

RECURSIVE LineDisposals(_)
\* line.geometry.dispose(); line.material.dispose() for each line in order
LineDisposals(lines) ==
    IF lines = <<>> THEN <<>>
    ELSE <<<<"edges", Head(lines)>>, <<"line", Head(lines)>>>> \o LineDisposals(Tail(lines))

WireframeDisposeList(st) ==
    LineDisposals(st.edgeLines \o st.cubeEdgeLines)
    \o (IF st.grid
           THEN <<<<"gridMaterial", "center">>, <<"gridMaterial", "lines">>, <<"geometry", "grid">>>>
           ELSE <<>>)

WireframeDisposeState(st) ==
    [st EXCEPT !.edgeLines = <<>>, !.cubeEdgeLines = <<>>, !.grid = FALSE, !.scene = FALSE]

WireframeRemoved(st) == IF st.grid /\ st.scene THEN {"grid"} ELSE {}

-----------------------------------------------------------------------------
(* RobotStyle interface: dispatch on the style the host was configured with *)

Styles == {"lowpoly", "wireframe"}

StyleApply(s, c) == IF s = "lowpoly" THEN LowPolyApply(c) ELSE WireframeApply(c)

StyleUpdateColors(s, st, pt, fg, c) ==
    IF s = "lowpoly" THEN LowPolyUpdateColors(st, pt, fg, c)
    ELSE WireframeUpdateColors(st, pt, fg, c)

StyleDisposeList(s, st) ==
    IF s = "lowpoly" THEN LowPolyDisposeList(st) ELSE WireframeDisposeList(st)

StyleDisposeState(s, st) ==
    IF s = "lowpoly" THEN LowPolyDisposeState(st) ELSE WireframeDisposeState(st)

StyleRemoved(s, st) == IF s = "lowpoly" THEN LowPolyRemoved(st) ELSE WireframeRemoved(st)

\* every resource a style instance allocates in apply()
StyleResources(s) == IF s = "lowpoly" THEN LowPolyResources ELSE WireframeResources

StyleHelpers(s) == IF s = "lowpoly" THEN LowPolyHelpers ELSE WireframeHelpers

HostResources == {<<"renderer", "canvas">>}

\* every graphics resource the subsystem allocates for a host using style s
Allocated(s) == BuilderResources \cup StyleResources(s) \cup HostResources

RECURSIVE LogDisposals(_, _, _)
\* d with one dispose() call by `who` recorded for every resource of list
LogDisposals(d, list, who) ==
    IF list = <<>> THEN d
    ELSE LogDisposals([d EXCEPT ![Head(list)] = Append(@, who)], Tail(list), who)

-----------------------------------------------------------------------------
(* Numbers.  A JavaScript number x is kept as the integer floor(x * Q);     *)
(* products and quotients are computed in pieces that fit 32-bit integers.  *)

\* fixed-point resolution of the reals of the model: Q units = 1.0
Q == 100000000

\* wheel speeds and wheel angles are kept in units of 1/W (they exceed 2^31/Q)
W == Q \div 100

Abs(x) == IF x < 0 THEN -x ELSE x

Min(a, b) == IF a < b THEN a ELSE b

Max(a, b) == IF a > b THEN a ELSE b

\* a * b for fixed-point a, b (|a|, |b| below 4.6 * Q)
MulQ(a, b) ==
    LET x  == Abs(a)
        y  == Abs(b)
        xh == x \div 10000
        xl == x % 10000
        yh == y \div 10000
        yl == y % 10000
        r  == xh * yh + ((xh * yl + xl * yh) + (xl * yl) \div 10000) \div 10000
    IN  IF (a < 0) = (b < 0) THEN r ELSE -r

RECURSIVE DivSteps(_, _, _, _)
\* long division: the quotient q and remainder r so far, scaled up by 10^n
DivSteps(q, r, b, n) ==
    IF n = 0 THEN q
    ELSE LET r5 == r * 5
             q1 == q * 5 + r5 \div b
             r1 == r5 % b
             r2 == r1 * 2
         IN  DivSteps(q1 * 2 + r2 \div b, r2 % b, b, n - 1)

\* a / b as a fixed-point number, for integers or fixed-point a, b (0 < b < 2.1 * Q)
DivQ(a, b) ==
    LET x == Abs(a)
        r == DivSteps(x \div b, x % b, b, 8)
    IN  IF a < 0 THEN -r ELSE r

\* Math.PI
PI == 314159265

TWO_PI == 2 * PI

RECURSIVE Series(_, _)
\* 1 - x2/(k(k+1)) * (1 - x2/((k+2)(k+3)) * (...)): the Taylor tail shared by sin and cos
Series(x2, k) ==
    IF k > 17 THEN Q ELSE Q - MulQ(x2, Series(x2, k + 2)) \div (k * (k + 1))

\* Math.sin / Math.cos of a fixed-point angle in [0, PI/2]
SinSmall(x) == MulQ(x, Series(MulQ(x, x), 2))

CosSmall(x) == Series(MulQ(x, x), 1)

\* Math.sin of any fixed-point angle
SinQ(x) ==
    LET a == x % TWO_PI
        b == IF a > PI THEN a - PI ELSE a
        v == IF 2 * b > PI THEN SinSmall(PI - b) ELSE SinSmall(b)
    IN  IF a > PI THEN -v ELSE v

\* Math.cos of any fixed-point angle
CosQ(x) ==
    LET a == x % TWO_PI
        b == IF a > PI THEN a - PI ELSE a
        v == IF 2 * b > PI THEN -CosSmall(PI - b) ELSE CosSmall(b)
    IN  IF a > PI THEN -v ELSE v

RECURSIVE ExpTail(_, _)
\* 1 - r/n * (1 - r/(n+1) * (...)): Taylor series of exp(-r), 0 <= r <= 1
ExpTail(r, n) ==
    IF n > 14 THEN Q ELSE Q - MulQ(r, ExpTail(r, n + 1)) \div n

RECURSIVE ExpNeg(_)
\* Math.exp(-x) for fixed-point x >= 0
ExpNeg(x) ==
    IF x <= Q THEN ExpTail(x, 1) ELSE MulQ(ExpTail(Q, 1), ExpNeg(x - Q))

\* Math.atan of a fixed-point x, |x| < 0.1 (x - x^3/3 + x^5/5 - x^7/7)
AtanSmall(x) ==
    LET x2 == MulQ(x, x)
    IN  MulQ(x, Q - MulQ(x2, Q \div 3 - MulQ(x2, Q \div 5 - MulQ(x2, Q \div 7))))

-----------------------------------------------------------------------------
(* AnimationController: constants *)

\* clock ticks per second of elapsed time (1 tick = 1/3000 s)
TicksPerSecond == 3000

CYCLE_DURATION == 4

PHASE_DRIVE_TO == 30000000

PHASE_BONK == 38000000

PHASE_SWERVE == 65000000

PHASE_DRIVE_HOME == 100000000

CUBE_PATH_T == 40000000

\* a stop point beyond the obstacle
MutStopPastCube == CUBE_PATH_T + 8000000

STOP_T == CUBE_PATH_T - 8000000

REVERSE_DIST == 6000000

REVERSE_FRAC == 20000000

SWERVE_OFFSET == 180000000

ARC_SAMPLES == 64

MAX_TURN_RAD == 3500000

CycleTicks == CYCLE_DURATION * TicksPerSecond

-----------------------------------------------------------------------------
(* Easing utilities *)

clamp01(v) == Max(0, Min(Q, v))

phaseT(t, start, end) == clamp01(DivQ(t - start, end - start))

lerp(a, b, t) == a + MulQ(b - a, t)

\* a wrap that leaves its argument as it is
MutWrapTIdentity(t) == t

wrapT(t) == ((t % Q) + Q) % Q

easeOut(t) == Q - MulQ(Q - t, Q - t)

\* a spring without its exponential envelope
MutSpringEaseUndamped(t, freq, damping) ==
    IF t <= 0 THEN 0
    ELSE IF t >= Q THEN Q
    ELSE Q - CosQ(freq * MulQ(t, PI))

springEase(t, freq, damping) ==
    IF t <= 0 THEN 0
    ELSE IF t >= Q THEN Q
    ELSE Q - MulQ(ExpNeg(damping * t), CosQ(freq * MulQ(t, PI)))

-----------------------------------------------------------------------------
(* AnimationController: constructor *)

\* a Drive-to that starts at the cube
MutDriveStartAtCube == CUBE_PATH_T

driveStartT == (CUBE_PATH_T + Q \div 2) % Q

\* an approach that runs up to the cube instead of the stop point
MutApproachToCube == ((CUBE_PATH_T - driveStartT) + Q) % Q

approachLength == ((STOP_T - driveStartT) + Q) % Q

reversedT == STOP_T - REVERSE_DIST

\* the detour spline's sample points (constructor, "Build the detour spline"):
\* each is kept as the Closed Path parameter it is taken at and its lateral
\* displacement along swerveDir
forwardLength == ((driveStartT - reversedT) + Q) % Q

lateralEndT == (CUBE_PATH_T + 14000000) % Q

lateralDist == ((lateralEndT - reversedT) + Q) % Q

arcFraction == DivQ(lateralDist, forwardLength)

Pow5(y) == MulQ(MulQ(MulQ(MulQ(y, y), y), y), y)

RECURSIVE Root5(_, _, _)
\* the largest y in lo..hi with y^5 <= c (bisection), for lo^5 <= c
Root5(c, lo, hi) ==
    IF hi - lo <= 1 THEN (IF Pow5(hi) <= c THEN hi ELSE lo)
    ELSE IF Pow5((lo + hi) \div 2) <= c
             THEN Root5(c, (lo + hi) \div 2, hi)
             ELSE Root5(c, lo, (lo + hi) \div 2)

\* Math.pow(x, 0.6) for 0 <= x <= 1
Pow06(x) == IF x = 0 THEN 0 ELSE Root5(MulQ(MulQ(x, x), x), 0, Q)

\* a lateral bulge over the whole detour, not only the arc zone
MutDetourLateralEverywhere(progress) ==
    MulQ(Pow06(Abs(SinQ(MulQ(progress, PI \div 2) + PI \div 4))), SWERVE_OFFSET)

\* lateral: Math.pow(Math.sin(arcNorm * Math.PI), 0.6) * SWERVE_OFFSET in the
\* arc zone, 0 outside it
DetourLateral(progress) ==
    IF progress < arcFraction
        THEN MulQ(Pow06(SinQ(MulQ(DivQ(progress, arcFraction), PI))), SWERVE_OFFSET)
        ELSE 0

\* sample i of 0..ARC_SAMPLES
DetourPoint(i) ==
    [pathT   |-> wrapT(reversedT + MulQ(forwardLength, i * (Q \div ARC_SAMPLES))),
     lateral |-> DetourLateral(i * (Q \div ARC_SAMPLES))]

\* detourPoints, first sample at index 1
detourPoints == [k \in 1..(ARC_SAMPLES + 1) |-> DetourPoint(k - 1)]

-----------------------------------------------------------------------------
(* The two curves.  A point of a curve is kept as <<curve, parameter>>; the  *)
(* unit tangent (horizontal) is kept as its heading angle, read from a       *)
(* table of the curve's heading at 32 equal parameter steps.                 *)

MainHeading ==
    <<-174618176, -204106742, -217776382, -231980761, -254390296, -281595116,
      -297419507, -308219031, -316776066, -324852709, -332668616, -339862687,
      -348758930, -363384874, -399455976, -440104424, -466954784, -490552421,
      -522294184, -545911931, -568841456, -599753542, -627690981, -639985789,
      -645721814, -647098120, -650006849, -654622991, -660505526, -670657315,
      -682903691, -716034786, -802936707>>

DetourHeading ==
    <<-220810734, -220001371, -230848645, -241502990, -249712421, -258414130,
      -269807875, -285871567, -311994719, -355109290, -409374256, -453109159,
      -474240312, -486051376, -493833668, -499548381, -504103323, -507942895,
      -512703859, -512979104, -517228536, -540108591, -560333317, -584509420,
      -616085316, -633515755, -642273984, -646420913, -646836763, -650253272,
      -654468842, -659710976, -666152867>>

\* heading in [0, 2 PI) of curve.getTangentAt(u).normalize()
TangentAt(curve, u) ==
    LET tab  == IF curve = "main" THEN MainHeading ELSE DetourHeading
        step == Q \div 32
        i    == Min(u \div step, 31)
        f    == DivQ(u - i * step, step)
    IN  (tab[i + 1] + MulQ(tab[i + 2] - tab[i + 1], f)) % TWO_PI

\* Vector3.angleTo for two unit vectors given by their headings: in [0, PI]
AngleTo(a, b) ==
    LET d == (b - a) % TWO_PI
    IN  IF d > PI THEN TWO_PI - d ELSE d

\* prev.clone().lerp(raw, fraction).normalize(): the heading of the
\* normalised linear blend (1 - f) * prev + f * raw of two unit vectors
LerpNormalize(prev, raw, f) ==
    LET d     == (raw - prev) % TWO_PI
        theta == AngleTo(prev, raw)
        num   == MulQ(f, SinQ(theta))
        den   == (Q - f) + MulQ(f, CosQ(theta))
        phi   == AtanSmall(DivQ(num, den))
    IN  IF d > PI THEN (prev - phi) % TWO_PI ELSE (prev + phi) % TWO_PI

NoTangent == -1

\* facing smoothing: the tangent update() stores and looks along
SmoothFacing(prev, raw) ==
    IF prev # NoTangent /\ AngleTo(prev, raw) > MAX_TURN_RAD
        THEN LerpNormalize(prev, raw, DivQ(MAX_TURN_RAD, AngleTo(prev, raw)))
        ELSE raw

-----------------------------------------------------------------------------
(* bonkWheelExtra: a floating-point number m * 10^e with a 7-digit          *)
(* mantissa (10^6 <= m < 10^7, or m = 0), rounded to nearest as the double  *)
(* of the code is.                                                          *)

RECURSIVE Pow10(_)
Pow10(n) == IF n = 0 THEN 1 ELSE 10 * Pow10(n - 1)

FloatZero == [m |-> 0, e |-> 0]

\* this.bonkWheelExtra = 25
BonkPeak == [m |-> 2500000, e |-> -5]

\* a decay that stops once the value is below 0.01
MutBonkDecayUntilNegligible(x) ==
    IF x.m = 0 \/ x.e < -8 THEN x
    ELSE LET p == x.m * 93
             r == IF p >= 100000000
                      THEN [m |-> (p + 50) \div 100, e |-> x.e]
                      ELSE [m |-> (p + 5) \div 10, e |-> x.e - 1]
         IN  IF r.m = 10000000 THEN [m |-> 1000000, e |-> r.e + 1] ELSE r

\* x * 0.93 (this.bonkWheelExtra *= 0.93)
BonkDecay(x) ==
    IF x.m = 0 THEN x
    ELSE LET p == x.m * 93
             r == IF p >= 100000000
                      THEN [m |-> (p + 50) \div 100, e |-> x.e]
                      ELSE [m |-> (p + 5) \div 10, e |-> x.e - 1]
         IN  IF r.m = 10000000 THEN [m |-> 1000000, e |-> r.e + 1] ELSE r

\* the float as a number of 1/W units (what it adds to a wheel speed)
FloatToW(x) ==
    IF x.m = 0 THEN 0
    ELSE IF x.e + 6 >= 0 THEN x.m * Pow10(x.e + 6)
    ELSE IF x.e + 6 < -7 THEN 0
    ELSE x.m \div Pow10(-(x.e + 6))

\* a < b for two non-negative floats
FloatLess(a, b) ==
    /\ b.m # 0
    /\ \/ a.m = 0
       \/ a.e < b.e
       \/ a.e = b.e /\ a.m < b.m

-----------------------------------------------------------------------------
(* AnimationController.update *)

RECURSIVE TimesMod(_, _)
\* (n * a) mod 2 PI, for a tick count n and an angle a per tick
TimesMod(n, a) ==
    IF n <= 4000 THEN (n * a) % TWO_PI
    ELSE (TimesMod(n - 4000, a) + ((4000 * a) % TWO_PI)) % TWO_PI

\* a cycle time clamped to [0, 1] instead of wrapped
MutCycleTClamped(elapsed) ==
    IF elapsed >= CycleTicks THEN Q ELSE DivQ(elapsed, CycleTicks)

\* t = totalT - floor(totalT), totalT = elapsed / CYCLE_DURATION
CycleT(elapsed) == DivQ(elapsed % CycleTicks, CycleTicks)

arcTimeBudget == MulQ(Q - REVERSE_FRAC, PHASE_SWERVE - PHASE_BONK)

\* a Drive-home budget counted from the start of Swerve's time
MutDriveTimeBudgetFromBonk == PHASE_DRIVE_HOME - PHASE_BONK

driveTimeBudget == PHASE_DRIVE_HOME - PHASE_SWERVE

totalTimeBudget == arcTimeBudget + driveTimeBudget

Uniform == <<Q, Q, Q>>

\* the phase branch of update(): what it selects from the elapsed time alone
\* (scale = <<>>: the branch leaves carBody.scale alone)
SelectPhase(elapsed) ==
    LET t == CycleT(elapsed)
    IN  IF t < PHASE_DRIVE_TO THEN
            LET pt == phaseT(t, 0, PHASE_DRIVE_TO)
            IN  [phase |-> "DriveTo", sub |-> "drive", t |-> t, local |-> pt,
                 curve |-> "main",
                 u |-> wrapT(driveStartT + MulQ(approachLength, pt)),
                 driving |-> TRUE, wheelSpeed |-> 8 * W,
                 scale |-> <<>>, setBonk |-> FALSE]
        ELSE IF t < PHASE_BONK THEN
            LET bt     == phaseT(t, PHASE_DRIVE_TO, PHASE_BONK)
                recoil == MulQ(MulQ(ExpNeg(6 * bt), SinQ(3 * MulQ(bt, PI))), 3000000)
                squash == springEase(bt, 5, 5)
            IN  [phase |-> "Bonk", sub |-> "bonk", t |-> t, local |-> bt,
                 curve |-> "main",
                 u |-> wrapT(STOP_T - recoil),
                 driving |-> FALSE, wheelSpeed |-> (3 * ExpNeg(8 * bt)) \div 100,
                 scale |-> <<lerp(112000000, Q, squash), lerp(82000000, Q, squash), Q>>,
                 setBonk |-> bt < 15000000]
        ELSE IF t < PHASE_SWERVE THEN
            LET st == phaseT(t, PHASE_BONK, PHASE_SWERVE)
            IN  IF st < REVERSE_FRAC THEN
                    LET rt == easeOut(DivQ(st, REVERSE_FRAC))
                    IN  [phase |-> "Swerve", sub |-> "reverse", t |-> t, local |-> st,
                         curve |-> "main",
                         u |-> wrapT(lerp(STOP_T, reversedT, rt)),
                         driving |-> TRUE,
                         wheelSpeed |-> -((5 * (Q - DivQ(st, REVERSE_FRAC))) \div 100),
                         scale |-> Uniform, setBonk |-> FALSE]
                ELSE
                    LET arcLocalT == DivQ(st - REVERSE_FRAC, Q - REVERSE_FRAC)
                    IN  [phase |-> "Swerve", sub |-> "arc", t |-> t, local |-> st,
                         curve |-> "detour",
                         u |-> DivQ(MulQ(arcLocalT, arcTimeBudget), totalTimeBudget),
                         driving |-> TRUE, wheelSpeed |-> 6 * W,
                         scale |-> Uniform, setBonk |-> FALSE]
        ELSE
            LET dt == phaseT(t, PHASE_SWERVE, PHASE_DRIVE_HOME)
            IN  [phase |-> "DriveHome", sub |-> "home", t |-> t, local |-> dt,
                 curve |-> "detour",
                 u |-> DivQ(arcTimeBudget + MulQ(dt, driveTimeBudget), totalTimeBudget),
                 driving |-> TRUE, wheelSpeed |-> 6 * W,
                 scale |-> Uniform, setBonk |-> FALSE]

\* the raw tangent of the curve point update(elapsed) selects
RawTangent(elapsed) == TangentAt(SelectPhase(elapsed).curve, SelectPhase(elapsed).u)

\* totalWheelSpeed * (1 / 60)
WheelDelta(totalWheelSpeed) ==
    IF totalWheelSpeed < 0 THEN -((-totalWheelSpeed) \div 60) ELSE totalWheelSpeed \div 60

\* a tail of update() that decays the impulse before the wheels use it
MutApplyFrameDecaysFirst(an, rf, lu, elapsed, raw, sel, tangent, bonk) ==
    [animator |-> [bonkWheelExtra |-> BonkDecay(bonk), prevTangent |-> tangent,
                   detourPath |-> an.detourPath],
     refs     |-> [vehiclePos    |-> [curve |-> sel.curve, u |-> sel.u,
                                      bounce |-> IF sel.driving
                                          THEN MulQ(Abs(SinQ(TimesMod(elapsed, (15 * Q) \div TicksPerSecond))), 1500000)
                                          ELSE 0],
                   vehicleFacing |-> tangent,
                   carBodyScale  |-> IF sel.scale = <<>> THEN rf.carBodyScale ELSE sel.scale,
                   carBodyRotZ   |-> IF sel.driving
                                          THEN MulQ(SinQ(TimesMod(elapsed, (15 * Q) \div (2 * TicksPerSecond))), 800000)
                                          ELSE 0,
                   wheelRotX     |-> [w \in DOMAIN rf.wheelRotX |->
                                          rf.wheelRotX[w] + WheelDelta(sel.wheelSpeed + FloatToW(BonkDecay(bonk)))]],
     locals   |-> [elapsed |-> elapsed, phase |-> sel.phase, sub |-> sel.sub,
                   local |-> sel.local, driving |-> sel.driving,
                   wheelSpeed |-> sel.wheelSpeed, rawTangent |-> raw,
                   prevTangent |-> an.prevTangent,
                   bonkBefore |-> an.bonkWheelExtra, setBonk |-> sel.setBonk,
                   totalWheelSpeed |-> sel.wheelSpeed + FloatToW(bonk),
                   wheelDelta |-> WheelDelta(sel.wheelSpeed + FloatToW(bonk)),
                   cycle |-> elapsed \div CycleTicks,
                   setsInPass |-> (IF lu.cycle = elapsed \div CycleTicks THEN lu.setsInPass ELSE 0)
                                  + (IF sel.setBonk THEN 1 ELSE 0),
                   sinceBonk |-> IF sel.setBonk \/ an.bonkWheelExtra.m = 0 THEN 0
                                 ELSE lu.sinceBonk + 1,
                   held |-> IF raw = lu.rawTangent THEN lu.held + 1 ELSE 1]]

\* the tail of update(): bounce + wobble, wheel spin, bonk decay, given the
\* phase selection sel, the smoothed tangent and the impulse in force
ApplyFrame(an, rf, lu, elapsed, raw, sel, tangent, bonk) ==
    [animator |-> [bonkWheelExtra |-> BonkDecay(bonk), prevTangent |-> tangent,
                   detourPath |-> an.detourPath],
     refs     |-> [vehiclePos    |-> [curve |-> sel.curve, u |-> sel.u,
                                      bounce |-> IF sel.driving
                                          THEN MulQ(Abs(SinQ(TimesMod(elapsed, (15 * Q) \div TicksPerSecond))), 1500000)
                                          ELSE 0],
                   vehicleFacing |-> tangent,
                   carBodyScale  |-> IF sel.scale = <<>> THEN rf.carBodyScale ELSE sel.scale,
                   carBodyRotZ   |-> IF sel.driving
                                          THEN MulQ(SinQ(TimesMod(elapsed, (15 * Q) \div (2 * TicksPerSecond))), 800000)
                                          ELSE 0,
                   wheelRotX     |-> [w \in DOMAIN rf.wheelRotX |->
                                          rf.wheelRotX[w] + WheelDelta(sel.wheelSpeed + FloatToW(bonk))]],
     locals   |-> [elapsed |-> elapsed, phase |-> sel.phase, sub |-> sel.sub,
                   local |-> sel.local, driving |-> sel.driving,
                   wheelSpeed |-> sel.wheelSpeed, rawTangent |-> raw,
                   prevTangent |-> an.prevTangent,
                   bonkBefore |-> an.bonkWheelExtra, setBonk |-> sel.setBonk,
                   totalWheelSpeed |-> sel.wheelSpeed + FloatToW(bonk),
                   wheelDelta |-> WheelDelta(sel.wheelSpeed + FloatToW(bonk)),
                   cycle |-> elapsed \div CycleTicks,
                   setsInPass |-> (IF lu.cycle = elapsed \div CycleTicks THEN lu.setsInPass ELSE 0)
                                  + (IF sel.setBonk THEN 1 ELSE 0),
                   sinceBonk |-> IF sel.setBonk \/ an.bonkWheelExtra.m = 0 THEN 0
                                 ELSE lu.sinceBonk + 1,
                   held |-> IF raw = lu.rawTangent THEN lu.held + 1 ELSE 1]]

\* an impulse set on every frame of Bonk
MutBonkInForceWholePhase(an, sel) ==
    IF sel.sub = "bonk" THEN BonkPeak ELSE an.bonkWheelExtra

\* the impulse in force on this frame: if (bt < 0.15) this.bonkWheelExtra = 25
BonkInForce(an, sel) == IF sel.setBonk THEN BonkPeak ELSE an.bonkWheelExtra

UpdateSelected(an, rf, lu, elapsed, raw, sel) ==
    ApplyFrame(an, rf, lu, elapsed, raw, sel, SmoothFacing(an.prevTangent, raw), BonkInForce(an, sel))

\* an update() that never advances by more than 1/30 s over the previous call
MutUpdateCapsDelta(an, rf, lu, elapsed, raw) ==
    UpdateSelected(an, rf, lu, elapsed, raw,
                   SelectPhase(IF lu.elapsed >= 0 /\ elapsed - lu.elapsed > TicksPerSecond \div 30
                                   THEN lu.elapsed + TicksPerSecond \div 30
                                   ELSE elapsed))

\* update(elapsed) with `raw` the unit tangent the curve returns: the new
\* <<animator, refs, locals>>; lu are the locals recorded by the previous call
\* (cycle, setsInPass, sinceBonk and held only count calls, for the properties)
Update(an, rf, lu, elapsed, raw) ==
    UpdateSelected(an, rf, lu, elapsed, raw, SelectPhase(elapsed))

\* state right after `new AnimationController(refs)` on freshly built refs
Constructed ==
    [animator |-> [bonkWheelExtra |-> FloatZero, prevTangent |-> NoTangent,
                   detourPath |-> detourPoints],
     refs     |-> [vehiclePos    |-> [curve |-> "origin", u |-> 0, bounce |-> 0],
                   vehicleFacing |-> NoTangent,
                   carBodyScale  |-> Uniform,
                   carBodyRotZ   |-> 0,
                   wheelRotX     |-> [w \in {"wheel-fr", "wheel-fl", "wheel-rr", "wheel-rl"} |-> 0]],
     locals   |-> [elapsed |-> -1, phase |-> "none", sub |-> "none", local |-> 0,
                   driving |-> FALSE, wheelSpeed |-> 0, rawTangent |-> NoTangent,
                   prevTangent |-> NoTangent, bonkBefore |-> FloatZero, setBonk |-> FALSE,
                   totalWheelSpeed |-> 0, wheelDelta |-> 0,
                   cycle |-> 0, setsInPass |-> 0, sinceBonk |-> 0, held |-> 0]]

-----------------------------------------------------------------------------
(* Scene host: initRobotScene *)

\* host page states of canvas.parentElement: a client size <<width, height>>,
\* or NoParent when the canvas has no parent element
Landscape == <<800, 600>>

Portrait == <<400, 700>>

NoParent == <<0, 0, "null">>

\* the size of a canvas element nobody has sized
DefaultCanvas == <<300, 150>>

ParentStates == {Landscape, Portrait, NoParent}

\* updateCamera(aspect): portrait gets the frontal view
updateCamera(size) == IF size[1] < size[2] THEN "front(0,3.5,6)" ELSE "iso(4,3.5,4)"

ctrlVars == <<animator, refs, lastUpdate>>

styleVars == <<meshMaterial, styleState, lineAttached, sceneChildren, fog, paint, disposals>>

listenerVars == <<rafPending, resizeListening, themeObserving, motionListening>>

\* the state initRobotScene leaves behind when it returns the teardown
\* function: everything built, style applied, resize() and animate() run once
InitOf(S, P, T, Z, R) ==
    /\ style \in S
    /\ period \in P
    /\ themeAttr \in T
    /\ parentSize \in Z
    /\ prefersReduced \in R
    /\ now = 0
    /\ rafPending = TRUE
    /\ resizeListening = TRUE
    /\ themeObserving = TRUE
    /\ motionListening = TRUE
    /\ canvasSize = (IF parentSize = NoParent THEN DefaultCanvas ELSE parentSize)
    /\ cameraPos = (IF parentSize = NoParent THEN "iso(4,3.5,4)" ELSE updateCamera(parentSize))
    /\ colors = themeAttr
    /\ reducedMotion = prefersReduced
    /\ meshMaterial = StyleApply(style, themeAttr).meshMaterial
    /\ styleState = StyleApply(style, themeAttr).styleState
    /\ lineAttached = StyleApply(style, themeAttr).lineAttached
    /\ sceneChildren = {"scene-root"} \cup StyleApply(style, themeAttr).sceneChildren
    /\ fog = StyleApply(style, themeAttr).fog
    /\ paint = StyleApply(style, themeAttr).paint
    /\ disposals = [r \in Allocated(style) |-> <<>>]
    /\ cleanupCalls = 0
    /\ lastCallback = "animate"
    /\ frameLog = [updated |-> ~reducedMotion, rendered |-> TRUE]
    /\ \E first \in {IF prefersReduced THEN Constructed
                        ELSE Update(Constructed.animator, Constructed.refs, Constructed.locals,
                                    0, RawTangent(0))} :
           /\ animator = first.animator
           /\ refs = first.refs
           /\ lastUpdate = first.locals

\* an animate() that returns before rendering while motion is reduced
MutAnimateSkipsRender(raw) ==
    /\ rafPending' = TRUE
    /\ IF ~reducedMotion
           THEN \E next \in {Update(animator, refs, lastUpdate, now', raw)} :
                    /\ animator' = next.animator
                    /\ refs' = next.refs
                    /\ lastUpdate' = next.locals
           ELSE UNCHANGED ctrlVars
    /\ frameLog' = [updated |-> ~reducedMotion, rendered |-> ~reducedMotion]
    /\ lastCallback' = "animate"

\* animate(): re-request the frame, update unless reduced motion, render
Animate(raw) ==
    /\ rafPending' = TRUE
    /\ IF ~reducedMotion
           THEN \E next \in {Update(animator, refs, lastUpdate, now', raw)} :
                    /\ animator' = next.animator
                    /\ refs' = next.refs
                    /\ lastUpdate' = next.locals
           ELSE UNCHANGED ctrlVars
    /\ frameLog' = [updated |-> ~reducedMotion, rendered |-> TRUE]
    /\ lastCallback' = "animate"

\* the display refreshes: the clock has advanced by one period and the
\* browser runs the queued frame callback, if one is (still) queued
Frame(limit) ==
    /\ now + period <= limit
    /\ now' = now + period
    /\ IF rafPending
           THEN Animate(RawTangent(now + period))
           ELSE /\ lastCallback' = "none"
                /\ UNCHANGED <<rafPending, frameLog, ctrlVars>>
    /\ UNCHANGED <<style, period, resizeListening, themeObserving, motionListening,
                   parentSize, canvasSize, cameraPos, themeAttr, colors,
                   prefersReduced, reducedMotion, styleVars, cleanupCalls>>

HostFrame == Frame(MaxHostSeconds * TicksPerSecond)

\* resize(): copy the parent's size to canvas and renderer, re-aim the camera
resize ==
    IF parentSize' = NoParent
        THEN UNCHANGED <<canvasSize, cameraPos>>
        ELSE /\ canvasSize' = parentSize'
             /\ cameraPos' = updateCamera(parentSize')

\* the host page resizes (or detaches) the canvas parent; the window
\* 'resize' event is delivered to the listeners still registered
HostResize(z) ==
    /\ z # parentSize
    /\ parentSize' = z
    /\ IF resizeListening
           THEN resize /\ lastCallback' = "resize"
           ELSE UNCHANGED <<canvasSize, cameraPos>> /\ lastCallback' = "none"
    /\ UNCHANGED <<style, period, now, listenerVars, themeAttr, colors, prefersReduced,
                   reducedMotion, styleVars, cleanupCalls, frameLog, ctrlVars>>

\* the themeObserver callback: colors = getThemeColors(); style.updateColors(colors)
themeObserver ==
    /\ colors' = themeAttr'
    /\ paint' = StyleUpdateColors(style, styleState, paint, fog, themeAttr').paint
    /\ fog' = StyleUpdateColors(style, styleState, paint, fog, themeAttr').fog

\* a theme change that also builds a new AnimationController
MutHostThemeRebuildsAnimator(c) ==
    /\ c # themeAttr
    /\ themeAttr' = c
    /\ IF themeObserving
           THEN /\ themeObserver /\ lastCallback' = "theme"
                /\ animator' = Constructed.animator
                /\ refs' = Constructed.refs
                /\ UNCHANGED lastUpdate
           ELSE UNCHANGED <<colors, paint, fog, ctrlVars>> /\ lastCallback' = "none"
    /\ UNCHANGED <<style, period, now, listenerVars, parentSize, canvasSize, cameraPos,
                   prefersReduced, reducedMotion, meshMaterial, styleState, lineAttached,
                   sceneChildren, disposals, cleanupCalls, frameLog>>

\* the page switches its data-theme attribute
HostTheme(c) ==
    /\ c # themeAttr
    /\ themeAttr' = c
    /\ IF themeObserving
           THEN themeObserver /\ lastCallback' = "theme"
           ELSE UNCHANGED <<colors, paint, fog>> /\ lastCallback' = "none"
    /\ UNCHANGED <<style, period, now, listenerVars, parentSize, canvasSize, cameraPos,
                   prefersReduced, reducedMotion, meshMaterial, styleState, lineAttached,
                   sceneChildren, disposals, cleanupCalls, frameLog, ctrlVars>>

\* the user's reduced-motion preference changes
HostMotion(b) ==
    /\ b # prefersReduced
    /\ prefersReduced' = b
    /\ IF motionListening
           THEN reducedMotion' = b /\ lastCallback' = "motion"
           ELSE UNCHANGED reducedMotion /\ lastCallback' = "none"
    /\ UNCHANGED <<style, period, now, listenerVars, parentSize, canvasSize, cameraPos,
                   themeAttr, colors, styleVars, cleanupCalls, frameLog, ctrlVars>>

\* a teardown that forgets cancelAnimationFrame
MutRevokeKeepsFrame ==
    /\ UNCHANGED rafPending
    /\ resizeListening' = FALSE
    /\ themeObserving' = FALSE
    /\ motionListening' = FALSE

\* cancelAnimationFrame, removeEventListener x2, themeObserver.disconnect
RevokeCallbacks ==
    /\ rafPending' = FALSE
    /\ resizeListening' = FALSE
    /\ themeObserving' = FALSE
    /\ motionListening' = FALSE

\* sceneRoot.traverse: child.geometry.dispose(); child.material.dispose()
RECURSIVE TraverseDisposals(_, _)
TraverseDisposals(meshes, mat) ==
    IF meshes = <<>> THEN <<>>
    ELSE <<<<"geometry", Head(meshes)>>, mat[Head(meshes)]>>
         \o TraverseDisposals(Tail(meshes), mat)

\* style.dispose(), the traversal of sceneRoot, scene.clear(), renderer.dispose()
ReleaseResources ==
    /\ styleState' = StyleDisposeState(style, styleState)
    /\ lineAttached' = lineAttached \ SeqRange(styleState.edgeLines \o styleState.cubeEdgeLines)
    /\ fog' = IF styleState.scene THEN NoFog ELSE fog
    /\ sceneChildren' = {}
    /\ disposals' =
           LogDisposals(
               LogDisposals(
                   LogDisposals(disposals, StyleDisposeList(style, styleState), "style"),
                   TraverseDisposals(TraverseOrder, meshMaterial), "host"),
               <<<<"renderer", "canvas">>>>, "host")
    /\ UNCHANGED <<meshMaterial, paint>>

\* the teardown function initRobotScene returned
Cleanup ==
    /\ cleanupCalls < MaxCleanupCalls
    /\ cleanupCalls' = cleanupCalls + 1
    /\ RevokeCallbacks
    /\ ReleaseResources
    /\ lastCallback' = "cleanup"
    /\ UNCHANGED <<style, period, now, parentSize, canvasSize, cameraPos, themeAttr,
                   colors, prefersReduced, reducedMotion, frameLog, ctrlVars>>

-----------------------------------------------------------------------------
(* Specifications *)

\* refresh period of the host specification: 1 frame per second
HostPeriods == {TicksPerSecond}

Init == InitOf(Styles, HostPeriods, Themes, ParentStates, BOOLEAN)

Next ==
    \/ HostFrame
    \/ \E z \in ParentStates : HostResize(z)
    \/ \E c \in Themes : HostTheme(c)
    \/ \E b \in BOOLEAN : HostMotion(b)
    \/ Cleanup

\* the scene host with every host event, at a coarse frame rate
Spec == Init /\ [][Next]_vars

\* refresh periods of the frame-by-frame specification: 60, 25 and 20 frames
\* per second (at 25 every phase boundary falls on a frame)
CyclePeriods == {TicksPerSecond \div 60, TicksPerSecond \div 25, TicksPerSecond \div 20}

InitCycle == InitOf(Styles, CyclePeriods, {"light"}, {Landscape}, {FALSE})

CycleFrame == Frame(MaxCycleSeconds * TicksPerSecond)

NextCycle == CycleFrame

\* the frame loop alone, frame by frame, with no other host event
SpecCycle == InitCycle /\ [][NextCycle]_vars

\* refresh periods of the specification with skipped frames: a frame every
\* 0.6 s or 1.2 s, so that one frame falls on the start of Bonk
GapPeriods == {(3 * TicksPerSecond) \div 5, (6 * TicksPerSecond) \div 5}

InitGap == InitOf(Styles, GapPeriods, {"light"}, {Landscape}, BOOLEAN)

GapFrame == Frame(MaxGapSeconds * TicksPerSecond)

NextGap ==
    \/ GapFrame
    \/ \E b \in BOOLEAN : HostMotion(b)

\* the frame loop with the reduced-motion preference switched on and off, so
\* that update() sees elapsed times with gaps of any number of frames
SpecGap == InitGap /\ [][NextGap]_vars

TurnPeriods == {TicksPerSecond \div 60}

\* angles between the facing of the first frame and the raw tangent held
\* from the second frame on: exactly opposite, 0.5 rad short of opposite, a
\* right angle, and a turn below MAX_TURN_RAD
TurnOffsets == {PI, PI - Q \div 2, PI \div 2, 2000000}

InitTurn == InitOf(Styles, TurnPeriods, {"light"}, {Landscape}, {FALSE})

\* a frame on which the curve returns, from the second frame on, one and the
\* same unit tangent
TurnFrame ==
    /\ now + period <= MaxTurnFrames * period
    /\ now' = now + period
    /\ rafPending
    /\ \E raw \in (IF now = 0
                      THEN {(animator.prevTangent + d) % TWO_PI : d \in TurnOffsets}
                      ELSE {lastUpdate.rawTangent}) : Animate(raw)
    /\ UNCHANGED <<style, period, resizeListening, themeObserving, motionListening,
                   parentSize, canvasSize, cameraPos, themeAttr, colors,
                   prefersReduced, reducedMotion, styleVars, cleanupCalls>>

NextTurn == TurnFrame

\* the frame loop over a stretch where the raw tangent stays the same
SpecTurn == InitTurn /\ [][NextTurn]_vars

-----------------------------------------------------------------------------
(* Properties: teardown *)

\* the teardown function has been called at least once
TornDown == cleanupCalls >= 1

\* C1: a second call of the teardown function releases nothing again: once
\* torn down, no further dispose() call is made on any resource
C1_SecondTeardownReleasesNothing == [][TornDown => disposals' = disposals]_vars

\* C2: after one teardown every graphics resource the subsystem allocated
\* (builder, style, host) has been disposed, the style helpers are out of
\* the scene and the fog is gone
C2_TeardownReleasesEverything ==
    TornDown =>
        /\ \A r \in Allocated(style) : disposals[r] # <<>>
        /\ sceneChildren \cap StyleHelpers(style) = {}
        /\ fog = NoFog

\* C3: during a single teardown no resource is disposed more than once
\* (not by the style's dispose() and again by the host's traversal)
C3_ReleasedAtMostOncePerTeardown ==
    cleanupCalls = 1 => \A r \in DOMAIN disposals : Len(disposals[r]) <= 1

\* C4: after the teardown function has returned no callback of the subsystem
\* runs again: no animate tick, resize handler, theme observer or
\* reduced-motion handler, and nothing they write changes
C4_NoCallbackAfterTeardown ==
    [][TornDown =>
          /\ lastCallback' \in {"none", "cleanup"}
          /\ UNCHANGED <<animator, refs, lastUpdate, frameLog, canvasSize, cameraPos,
                         colors, paint, reducedMotion>>]_vars

\* a torn-down scene to which the host has since delivered a frame, a theme
\* change, a motion-preference change and a resize
C4_Witness ==
    /\ TornDown
    /\ ~reducedMotion /\ prefersReduced
    /\ now > lastUpdate.elapsed
    /\ themeAttr # colors
    /\ parentSize # NoParent /\ parentSize # canvasSize
    /\ lastCallback = "none"

\* C5: the style's dispose() disposes every resource the style allocated in
\* apply(), removes its helpers and the fog, and disposes nothing else
C5_StyleDisposeFreesExactlyItsOwn ==
    TornDown =>
        /\ \A r \in StyleResources(style) : "style" \in SeqRange(disposals[r])
        /\ \A r \in DOMAIN disposals \ StyleResources(style) :
               "style" \notin SeqRange(disposals[r])
        /\ sceneChildren \cap StyleHelpers(style) = {}
        /\ fog = NoFog

-----------------------------------------------------------------------------
(* Properties: animation controller *)

\* update() has run at least once
Updated == lastUpdate.phase # "none"

\* the last update() neither found nor left the impulse at zero and did not
\* set it
Decaying == Updated /\ ~lastUpdate.setBonk /\ lastUpdate.bonkBefore.m # 0

\* the last update() fell inside the early Bonk window (bt < 0.15)
InBonkWindow == lastUpdate.sub = "bonk" /\ lastUpdate.local < 15000000

\* C6: the facing stored by an update is within MAX_TURN_RAD of the facing
\* stored by the previous update
C6_TurnAtMostMaxTurnRad ==
    (Updated /\ lastUpdate.prevTangent # NoTangent) =>
        AngleTo(lastUpdate.prevTangent, animator.prevTangent) <= MAX_TURN_RAD

\* C7: on every update that does not set the impulse, bonkWheelExtra is
\* strictly smaller than before and not negative; 64 such updates in a row
\* bring it below 2.5e-1, 128 below 2.5e-3
C7_BonkExtraDecaysToZero ==
    Decaying =>
        /\ FloatLess(animator.bonkWheelExtra, lastUpdate.bonkBefore)
        /\ animator.bonkWheelExtra.m >= 0
        /\ lastUpdate.sinceBonk >= 64 =>
               FloatLess(animator.bonkWheelExtra, [m |-> 2500000, e |-> -7])
        /\ lastUpdate.sinceBonk >= 128 =>
               FloatLess(animator.bonkWheelExtra, [m |-> 2500000, e |-> -9])

\* an impulse that has been decaying for 128 updates, now in Drive-home
C7_Witness ==
    /\ Decaying
    /\ lastUpdate.sinceBonk >= 128
    /\ lastUpdate.sub = "home"
    /\ animator.bonkWheelExtra.m > 0

\* C8 (as stated): within one pass through the cycle the impulse is raised
\* to its peak by one frame only
C8_RaisedOncePerPass == lastUpdate.setsInPass <= 1

\* C8 (amended): every frame inside the early Bonk window (bt < 0.15) sets
\* the impulse to its peak, so it is stored as 25 * 0.93; every frame outside
\* that window leaves it smaller than it was, or at zero
C8_RaisedOnlyInBonkWindow ==
    Updated =>
        IF InBonkWindow
        THEN animator.bonkWheelExtra = BonkDecay(BonkPeak)
        ELSE \/ FloatLess(animator.bonkWheelExtra, lastUpdate.bonkBefore)
             \/ lastUpdate.bonkBefore.m = 0 /\ animator.bonkWheelExtra.m = 0

\* the third frame of one pass that raises the impulse again
C8_Witness ==
    /\ InBonkWindow
    /\ lastUpdate.setsInPass = 3
    /\ FloatLess(lastUpdate.bonkBefore, BonkPeak)
    /\ lastUpdate.bonkBefore.m # 0

\* C9: in the reverse sub-segment of Swerve the wheel spin applied to the
\* wheels is negative
C9_ReverseSpinNegative ==
    lastUpdate.sub = "reverse" => lastUpdate.wheelDelta < 0

\* C10 (as stated): at Bonk progress 0 the body scale is (1, 1, 1)
C10_UniformAtBonkStart ==
    (lastUpdate.sub = "bonk" /\ lastUpdate.local = 0) => refs.carBodyScale = Uniform

\* C10 (amended): at Bonk progress 0 the body scale is (1.12, 0.82, 1), the
\* largest deviation of the phase; z stays 1; from progress 0.9 on the scale
\* is within 0.002 of (1, 1, 1)
C10_SquashLargestAtBonkStart ==
    lastUpdate.sub = "bonk" =>
        /\ refs.carBodyScale[3] = Q
        /\ Abs(refs.carBodyScale[1] - Q) <= 12000000
        /\ Abs(refs.carBodyScale[2] - Q) <= 18000000
        /\ lastUpdate.local = 0 => refs.carBodyScale = <<112000000, 82000000, Q>>
        /\ lastUpdate.local >= 90000000 =>
               /\ Abs(refs.carBodyScale[1] - Q) <= 200000
               /\ Abs(refs.carBodyScale[2] - Q) <= 200000

\* a frame in the last tenth of Bonk with the body still off uniform
C10_Witness ==
    /\ lastUpdate.sub = "bonk"
    /\ lastUpdate.local >= 90000000
    /\ refs.carBodyScale # Uniform

\* C11: on every frame in Bonk and in the reverse sub-segment of Swerve no
\* bounce is added to the vehicle height and the body roll is zero
C11_NoBounceInBonkOrReverse ==
    lastUpdate.sub \in {"bonk", "reverse"} =>
        refs.vehiclePos.bounce = 0 /\ refs.carBodyRotZ = 0

\* cycle-local time at which the reverse sub-segment ends (0.434)
DetourStartT == PHASE_BONK + MulQ(REVERSE_FRAC, PHASE_SWERVE - PHASE_BONK)

\* the last update() was on the detour: the arc part of Swerve or Drive-home
OnDetour == lastUpdate.sub \in {"arc", "home"}

\* C12: on every detour frame, in Swerve and in Drive-home alike, the detour
\* parameter is v = (t - 0.434) / (1 - 0.434) of the cycle-local time t (up
\* to 1e-7): 0 where the reverse ends, 1 at the end of the cycle, one slope
\* in both phases; from one detour frame to the next of the same cycle v does
\* not decrease
C12_DetourParameterLinear ==
    [][OnDetour' =>
          /\ refs'.vehiclePos.curve = "detour"
          /\ refs'.vehiclePos.u >= 0 /\ refs'.vehiclePos.u <= Q
          /\ Abs(refs'.vehiclePos.u
                   - DivQ(CycleT(lastUpdate'.elapsed) - DetourStartT, Q - DetourStartT)) <= 10
          /\ (OnDetour /\ lastUpdate.cycle = lastUpdate'.cycle) =>
                 refs'.vehiclePos.u >= refs.vehiclePos.u]_vars

\* a late Drive-home frame, the vehicle near the end of the detour
C12_Witness ==
    /\ lastUpdate.sub = "home"
    /\ refs.vehiclePos.curve = "detour"
    /\ refs.vehiclePos.u >= 99000000

\* C13: the first detour sample is the Closed Path point of the reverse
\* parameter and the last one that of driveStartT, both with no lateral
\* displacement; a sample has a lateral displacement only if it lies strictly
\* inside the lateral window (0 < i / ARC_SAMPLES < 0.4375)
C13_DetourEndsOnClosedPath ==
    /\ Len(animator.detourPath) = ARC_SAMPLES + 1
    /\ animator.detourPath[1] = [pathT |-> 26000000, lateral |-> 0]
    /\ animator.detourPath[ARC_SAMPLES + 1] = [pathT |-> 90000000, lateral |-> 0]
    /\ \A k \in 1..(ARC_SAMPLES + 1) :
           animator.detourPath[k].lateral # 0 =>
               /\ k - 1 > 0
               /\ (k - 1) * (((90000000 - 26000000) + Q) % Q)
                      < ARC_SAMPLES * (((54000000 - 26000000) + Q) % Q)

\* the vehicle on the detour, whose spline bulges sideways at one sample and
\* is back on the Closed Path at the next
C13_Witness ==
    /\ lastUpdate.sub = "arc"
    /\ animator.detourPath[28].lateral > 0
    /\ animator.detourPath[29].lateral = 0

\* the phase whose interval holds the cycle-local time of `elapsed`:
\* Drive-to [0, 0.30), Bonk [0.30, 0.38), Swerve [0.38, 0.65), Drive-home [0.65, 1)
PhaseOfTicks(elapsed) ==
    IF (elapsed % CycleTicks) * 100 < 30 * CycleTicks THEN "DriveTo"
    ELSE IF (elapsed % CycleTicks) * 100 < 38 * CycleTicks THEN "Bonk"
    ELSE IF (elapsed % CycleTicks) * 100 < 65 * CycleTicks THEN "Swerve"
    ELSE "DriveHome"

\* C14: the phase update(e) selected is the one whose interval holds e's
\* cycle-local time, and update(e + D) selects the same phase, sub-segment
\* and phase-local progress
C14_PhasePeriodic ==
    Updated =>
        /\ lastUpdate.phase = PhaseOfTicks(lastUpdate.elapsed)
        /\ \E later \in {SelectPhase(lastUpdate.elapsed + CycleTicks)} :
               /\ later.phase = lastUpdate.phase
               /\ later.sub = lastUpdate.sub
               /\ later.local = lastUpdate.local

\* a Bonk frame of the second cycle
C14_Witness ==
    /\ lastUpdate.phase = "Bonk"
    /\ lastUpdate.elapsed >= CycleTicks
    /\ lastUpdate.local > 0

-----------------------------------------------------------------------------
(* Properties: host events *)

\* the step is a display refresh that runs the queued animate()
FrameTick == now' # now /\ rafPending

\* C15: a frame tick under reduced motion leaves the controller's state
\* (position, facing memory, wheel rotation, body scale, bonk impulse) as it
\* was, still renders and still requests the next frame; a frame tick without
\* it updates with the clock's time and renders; a change of the preference
\* changes the flag and nothing else of the frame loop
C15_ReducedMotionSkipsUpdateOnly ==
    [][/\ (FrameTick /\ reducedMotion) =>
              /\ UNCHANGED <<animator, refs, lastUpdate>>
              /\ frameLog' = [updated |-> FALSE, rendered |-> TRUE]
              /\ rafPending' /\ lastCallback' = "animate"
       /\ (FrameTick /\ ~reducedMotion) =>
              /\ lastUpdate'.elapsed = now'
              /\ frameLog' = [updated |-> TRUE, rendered |-> TRUE]
              /\ rafPending' /\ lastCallback' = "animate"
       /\ reducedMotion' # reducedMotion =>
              UNCHANGED <<animator, refs, lastUpdate, frameLog, rafPending, now,
                          resizeListening, themeObserving, motionListening>>]_vars

\* a frame rendered under reduced motion, the pose of an earlier update kept
C15_Witness ==
    /\ reducedMotion /\ rafPending
    /\ lastCallback = "animate"
    /\ frameLog = [updated |-> FALSE, rendered |-> TRUE]
    /\ Updated /\ lastUpdate.elapsed < now

\* C16: a theme change leaves canvas size, camera and the controller's state
\* alone, a resize leaves colours, fog and the controller's state alone, and
\* the controller's state (vehicle position and facing, body scale, wheel
\* rotation, previous facing, bonk impulse) changes on frame ticks only
C16_EventsLeaveMotionStateAlone ==
    [][/\ themeAttr' # themeAttr =>
              UNCHANGED <<animator, refs, lastUpdate, canvasSize, cameraPos, frameLog,
                          meshMaterial, lineAttached, sceneChildren, reducedMotion>>
       /\ parentSize' # parentSize =>
              UNCHANGED <<animator, refs, lastUpdate, colors, paint, fog, frameLog,
                          meshMaterial, lineAttached, sceneChildren, reducedMotion>>
       /\ now' = now => UNCHANGED <<animator, refs>>]_vars

\* a running scene that has just repainted for the dark theme, in the
\* portrait view, between two frames
C16_Witness ==
    /\ lastCallback = "theme"
    /\ colors = "dark" /\ paint # StyleApply(style, "light").paint
    /\ canvasSize = Portrait /\ cameraPos = updateCamera(Portrait)
    /\ Updated /\ lastUpdate.elapsed > 0 /\ rafPending

\* C17: in the wireframe style, while the scene observes the theme, the
\* obstacle's edge lines have the fixed colour CUBE_COLOR and every vehicle
\* edge line has the accent colour of the current theme
C17_CubeLinesKeepFixedColour ==
    (style = "wireframe" /\ themeObserving) =>
        /\ paint[<<"line", CubeMesh>>] = CUBE_COLOR
        /\ \A m \in SeqRange(VehicleMeshes) :
               paint[<<"line", m>>] = Colour("accent", themeAttr, "none")

\* a wireframe scene that has just repainted for a theme change
C17_Witness ==
    /\ style = "wireframe" /\ themeObserving
    /\ lastCallback = "theme"
    /\ paint[<<"line", "car-body">>] = Colour("accent", "dark", "none")
    /\ paint # StyleApply(style, "light").paint

-----------------------------------------------------------------------------
(* Properties: animation controller, continued *)

\* C18: the parameter of every curve evaluation of update() is normalized:
\* on the Closed Path it lies in [0, 1), on the Detour Path in [0, 1]
C18_CurveParametersNormalized ==
    Updated =>
        /\ refs.vehiclePos.curve \in {"main", "detour"}
        /\ refs.vehiclePos.u >= 0
        /\ refs.vehiclePos.curve = "main" => refs.vehiclePos.u < Q
        /\ refs.vehiclePos.curve = "detour" => refs.vehiclePos.u <= Q

\* a Drive-to frame past the seam of the Closed Path: driveStartT plus the
\* distance driven exceeds 1 and has been wrapped
C18_Witness ==
    /\ lastUpdate.sub = "drive"
    /\ driveStartT + MulQ(approachLength, lastUpdate.local) >= Q
    /\ refs.vehiclePos.u < driveStartT

\* C19: after the first frame, update(0), the vehicle is on the Closed Path
\* at driveStartT = 0.9 with no bounce, every wheel has turned forward by
\* 8 / 60, and the body scale is (1, 1, 1)
C19_FirstFrameAtDriveStart ==
    (Updated /\ lastUpdate.elapsed = 0) =>
        /\ lastUpdate.phase = "DriveTo"
        /\ refs.vehiclePos = [curve |-> "main", u |-> 90000000, bounce |-> 0]
        /\ \A w \in DOMAIN refs.wheelRotX : refs.wheelRotX[w] = (8 * W) \div 60
        /\ lastUpdate.wheelDelta > 0
        /\ refs.carBodyScale = Uniform

\* the scene right after its first frame
C19_Witness ==
    /\ Updated /\ lastUpdate.elapsed = 0 /\ now = 0
    /\ refs.vehicleFacing # NoTangent
    /\ refs.wheelRotX["wheel-fr"] > 0

\* the bounce update(elapsed) adds on a driving frame
BounceAt(elapsed) ==
    MulQ(Abs(SinQ(TimesMod(elapsed, (15 * Q) \div TicksPerSecond))), 1500000)

\* C20: every update() turns the wheels by the spin of the impulse in force
\* before this frame's decay (the peak on a frame in the early Bonk window,
\* the stored value otherwise) and stores that impulse times 0.93; on a
\* driving frame the bounce is on top of the position written, not lost
C20_EffectsAfterPositionDecayLast ==
    [][lastUpdate' # lastUpdate =>
          /\ \E inForce \in {IF InBonkWindow' THEN BonkPeak ELSE animator.bonkWheelExtra} :
                 /\ \A w \in DOMAIN refs.wheelRotX :
                        refs'.wheelRotX[w] - refs.wheelRotX[w]
                            = WheelDelta(lastUpdate'.wheelSpeed + FloatToW(inForce))
                 /\ animator'.bonkWheelExtra = BonkDecay(inForce)
          /\ refs'.vehicleFacing = animator'.prevTangent
          /\ refs'.vehiclePos.bounce =
                 (IF lastUpdate'.driving THEN BounceAt(lastUpdate'.elapsed) ELSE 0)]_vars

\* a driving frame with a bounce and an impulse still adding to the spin
C20_Witness ==
    /\ lastUpdate.driving /\ refs.vehiclePos.bounce > 0
    /\ lastUpdate.bonkBefore.m # 0
    /\ lastUpdate.totalWheelSpeed > lastUpdate.wheelSpeed
    /\ FloatLess(animator.bonkWheelExtra, lastUpdate.bonkBefore)

\* C21: after every frame that update() places in a phase other than Bonk
\* the body scale is (1, 1, 1), whatever frames were skipped before it
C21_UniformOutsideBonk ==
    (Updated /\ lastUpdate.phase # "Bonk") => refs.carBodyScale = Uniform

\* C22: for the flat-shaded style, after updateColors(C) every owned
\* material, light and fog colour equals the colour a fresh apply() with
\* theme C gives the same part
C22_LowPolyUpdateMatchesFreshApply ==
    (style = "lowpoly" /\ lastCallback = "theme")
        => /\ paint = LowPolyApply(colors).paint
           /\ fog = LowPolyApply(colors).fog

\* the clock tick at which the cycle-local time is x
TickOf(x) == ((x \div 10000) * CycleTicks) \div 10000

\* two selections on the same curve whose parameters differ by at most the
\* distance one clock tick covers (0.0005 bounds it in every phase)
Adjacent(before, after) ==
    /\ before.curve = after.curve
    /\ Abs(before.u - after.u) <= 50000

\* C23: the curve position update() selects is continuous in cycle-local
\* time at every phase boundary and at the wrap: one tick before the
\* boundary the selection is within a tick's travel of the selection at the
\* boundary, which is the stop point (Bonk start, reverse start), the
\* reverse point = the detour's first sample (detour v = 0), or
\* driveStartT = the detour's last sample (Drive-to start after v = 1)
C23_PositionContinuousAtBoundaries ==
    Updated =>
        /\ \E before \in {SelectPhase(TickOf(PHASE_DRIVE_TO) - 1)},
              after \in {SelectPhase(TickOf(PHASE_DRIVE_TO))} :
               /\ before.sub = "drive" /\ after.sub = "bonk"
               /\ Adjacent(before, after)
               /\ after.curve = "main" /\ after.u = STOP_T
        /\ \E before \in {SelectPhase(TickOf(PHASE_BONK) - 1)},
              after \in {SelectPhase(TickOf(PHASE_BONK))} :
               /\ before.sub = "bonk" /\ after.sub = "reverse"
               /\ Adjacent(before, after)
               /\ after.curve = "main" /\ after.u = STOP_T
        /\ \E before \in {SelectPhase(TickOf(DetourStartT) - 1)},
              after \in {SelectPhase(TickOf(DetourStartT))} :
               /\ before.sub = "reverse" /\ after.sub = "arc"
               /\ before.curve = "main" /\ Abs(before.u - reversedT) <= 50000
               /\ after.curve = "detour" /\ after.u = 0
               /\ animator.detourPath[1] = [pathT |-> reversedT, lateral |-> 0]
        /\ \E before \in {SelectPhase(TickOf(PHASE_SWERVE) - 1)},
              after \in {SelectPhase(TickOf(PHASE_SWERVE))} :
               /\ before.sub = "arc" /\ after.sub = "home"
               /\ Adjacent(before, after)
        /\ \E before \in {SelectPhase(CycleTicks - 1)},
              after \in {SelectPhase(CycleTicks)} :
               /\ before.sub = "home" /\ after.sub = "drive"
               /\ before.curve = "detour" /\ Abs(before.u - Q) <= 50000
               /\ after.curve = "main" /\ after.u = driveStartT
               /\ animator.detourPath[ARC_SAMPLES + 1]
                      = [pathT |-> driveStartT, lateral |-> 0]

\* the frame at the cycle wrap: the previous frame was on the detour and this
\* one, at cycle-local time 0 of the next cycle, is at the Drive-to start
C23_Witness ==
    /\ lastUpdate.elapsed = CycleTicks
    /\ lastUpdate.sub = "drive"
    /\ refs.vehiclePos.curve = "main"
    /\ refs.vehiclePos.u = driveStartT

Approach(u) == ((u - driveStartT) + Q) % Q

\* C25: on every frame that evaluates the Closed Path (Drive-to, Bonk,
\* reverse) the parameter lies between driveStartT and the obstacle, short
\* of CUBE_PATH_T; in Drive-to it is no further than STOP_T and, from one
\* Drive-to frame to the next of the same cycle, it has advanced
C25_StaysOnApproachSide ==
    [][lastUpdate'.sub \in {"drive", "bonk", "reverse"} =>
          /\ refs'.vehiclePos.curve = "main"
          /\ Approach(refs'.vehiclePos.u) < Approach(CUBE_PATH_T)
          /\ lastUpdate'.sub = "drive" =>
                 /\ Approach(refs'.vehiclePos.u) <= Approach(STOP_T)
                 /\ (/\ lastUpdate.sub = "drive"
                     /\ lastUpdate.cycle = lastUpdate'.cycle
                     /\ lastUpdate.elapsed < lastUpdate'.elapsed)
                        => Approach(refs.vehiclePos.u) < Approach(refs'.vehiclePos.u)]_vars

\* a Bonk frame on the forward swing of the recoil oscillation: the vehicle
\* is past the stop point, the nearest it comes to the obstacle
C25_Witness ==
    /\ lastUpdate.sub = "bonk"
    /\ refs.vehiclePos.u > STOP_T
    /\ refs.vehiclePos.u < CUBE_PATH_T

\* C26: the phase, the phase-local progress and the curve point that
\* update(e) selects are those a controller fresh from its constructor
\* selects for the same e, whatever calls this controller received before
\* (frames at another rate, frames skipped under reduced motion)
C26_SelectionDependsOnElapsedOnly ==
    Updated =>
        \E fresh \in {Update(Constructed.animator, Constructed.refs, Constructed.locals,
                             lastUpdate.elapsed, lastUpdate.rawTangent)} :
            /\ fresh.locals.phase = lastUpdate.phase
            /\ fresh.locals.sub = lastUpdate.sub
            /\ fresh.locals.local = lastUpdate.local
            /\ fresh.refs.vehiclePos = refs.vehiclePos

\* a controller whose history shows: it was last updated on a Bonk frame,
\* skipped frames, and now stands in Drive-to with the impulse still decaying
\* and the squash still on the body, none of which a fresh controller has
C26_Witness ==
    /\ lastUpdate.phase = "DriveTo"
    /\ lastUpdate.elapsed > CycleTicks
    /\ refs.carBodyScale # Uniform
    /\ animator.bonkWheelExtra.m # 0
    /\ refs.wheelRotX["wheel-fr"] # (8 * W) \div 60

====
